---- MODULE Spec2Model ----
(***************************************************************************)
(* Model of src/server.js: an HTTP / socket.io facade over one shared      *)
(* whatsapp-web.js client.  The state is the two session flags, the        *)
(* pending QR image encodings, the socket.io broadcasts, the Node timer    *)
(* list, the restart cycles of the reconnect supervisor, the HTTP          *)
(* requests in flight with their responses, the send attempts handed to    *)
(* the client, and the uploads directory.                                  *)
(*                                                                         *)
(* Node runs one callback at a time: every action below is one callback    *)
(* (an event handler, a timer callback, or the continuation of an await)   *)
(* run to completion.                                                      *)
(***************************************************************************)
EXTENDS Integers, Sequences, FiniteSets, TLC

VARIABLES
    clientConnected,    \* server.js:14
    qrGenerated,        \* server.js:15
    qrPendingCur,       \* toDataURL callbacks not yet run, offer accepted since the last reset
    qrPendingStale,     \* toDataURL callbacks not yet run, offer accepted before the last reset
    epochAccepted,      \* history: offers that passed the guard since the last reset
    epochQrEmits,       \* history: qr broadcasts of offers accepted since the last reset
    staleQrEmits,       \* history: qr broadcasts of offers accepted before the last reset
    nEmits,             \* history: number of io.emit broadcasts so far
    lastEmit,           \* the event name of the last io.emit broadcast
    now,                \* Date.now(), in ms since process start
    timers,             \* the pending setTimeout callbacks, in insertion order
    cycles,             \* one entry per restartClient call: the phase it is in
    clientInit,         \* state of the client.initialize() call of line 238
    unhandled,          \* a promise rejection nobody handles has happened
    requests,           \* HTTP requests and socket events: what was asked, fetched, answered
    sends,              \* client.sendMessage calls: target, request, outcome
    files               \* paths present in uploads/

sessionVars == <<clientConnected, qrGenerated>>
qrVars      == <<qrPendingCur, qrPendingStale, epochAccepted, epochQrEmits, staleQrEmits>>
wireVars    == <<nEmits, lastEmit>>
timeVars    == <<now, timers>>
restartVars == <<cycles, clientInit, unhandled>>
httpVars    == <<requests, sends, files>>

vars == <<clientConnected, qrGenerated, qrPendingCur, qrPendingStale,
          epochAccepted, epochQrEmits, staleQrEmits, nEmits, lastEmit,
          now, timers, cycles, clientInit, unhandled, requests, sends, files>>

----------------------------------------------------------------------------
(* Bounds of the model. *)

MaxEmits       == 2    \* io.emit broadcasts in one run
MaxPending     == 2    \* QR image encodings in flight at once
MaxDisconnects == 2    \* disconnected events in one run
MaxTime        == 1    \* ms after process start during which the environment acts
StartInstant   == 1    \* Date.now() at process start
MaxBulk        == 1    \* POST /send and POST /schedule requests in one run
MaxGroup       == 1    \* POST /send-group requests in one run
MaxMedia       == 2    \* POST /send-media requests in one run
MaxList        == 1    \* getContacts events in one run
MaxLen         == 3    \* characters of a raw recipient string

(* Program constants. *)

RestartDelay == 5000   \* server.js:229
DefaultDelay == 1000   \* server.js:82

----------------------------------------------------------------------------
(* Node timers. *)

\* TIMEOUT_MAX of Node's timers, 2^31 - 1: the longest delay setTimeout keeps.
TimeoutMax == 2147483647

(* The numbers of a request body reach beyond TimeoutMax, which is also the  *)
(* largest integer of the model checker: a number is hi * 2^30 + lo, with    *)
(* lo of small magnitude.                                                    *)
Big == TimeoutMax \div 2 + 1

Num(hi, lo) == [hi |-> hi, lo |-> lo]

Times(i, x) == Num(i * x.hi, i * x.lo)

\* x - t, for an instant t.
Minus(x, t) == Num(x.hi, x.lo - t)

AtMostZero(x)      == x.hi < 0 \/ (x.hi = 0 /\ x.lo <= 0)
BelowOne(x)        == x.hi < 0 \/ (x.hi = 0 /\ x.lo < 1)
AboveTimeoutMax(x) == x.hi > 2 \/ (x.hi = 2 /\ x.lo >= 0)

\* The instant t is at or after the number x.
Reached(t, x) == x.hi < 0 \/ (x.hi = 0 /\ t >= x.lo) \/ (x.hi = 1 /\ t >= Big + x.lo)

\* setTimeout keeps a delay from 1 to TimeoutMax ms and sets every other
\* delay (below 1, above TimeoutMax, NaN) to 1 ms.
TimerMs(x) == IF BelowOne(x) \/ AboveTimeoutMax(x) THEN 1 ELSE x.hi * Big + x.lo

\* setTimeout(cb, ms): appended to the list of pending timers.
SetTimeout(ts, cb, ms) ==
    Append(ts, [cb |-> cb, ms |-> TimerMs(ms), due |-> now + TimerMs(ms)])

RemoveAt(s, i) == [j \in 1..(Len(s) - 1) |-> IF j < i THEN s[j] ELSE s[j + 1]]

\* The timer Node runs next: it has expired, no pending timer expires
\* strictly earlier, and no timer of the same duration was armed before it.
CanFire(i) ==
    /\ i \in 1..Len(timers)
    /\ timers[i].due <= now
    /\ \A j \in 1..Len(timers) : timers[j].due >= timers[i].due
    /\ \A j \in 1..(i - 1) : timers[j].ms # timers[i].ms

Min(S) == CHOOSE x \in S : \A y \in S : x <= y

FutureDues == {timers[i].due : i \in 1..Len(timers)} \ (0..now)

\* Time passes: by one ms inside the observed window, or to the instant the
\* next timer expires.
Tick ==
    /\ \/ now < StartInstant + MaxTime /\ now' = now + 1
       \/ FutureDues # {} /\ now' = Min(FutureDues)
    /\ UNCHANGED <<sessionVars, qrVars, wireVars, timers, restartVars, httpVars>>

----------------------------------------------------------------------------
(* Session flags, QR emission and lifecycle broadcasts. *)

\* io.emit(event): a broadcast to every connected socket.
Broadcast(event) ==
    /\ nEmits < MaxEmits
    /\ nEmits' = nEmits + 1
    /\ lastEmit' = event

\* The guard without its qrGenerated half.
QrSwallowedUnlessConnected == clientConnected

\* server.js:25, the guard of the qr handler.
QrSwallowed == clientConnected \/ qrGenerated

\* client.on("qr"): server.js:24-31, up to the call of qrcode.toDataURL.
OnQr ==
    /\ IF QrSwallowed
       THEN UNCHANGED <<qrGenerated, qrVars>>
       ELSE /\ qrPendingCur + qrPendingStale < MaxPending
            /\ qrGenerated' = TRUE
            /\ qrPendingCur' = qrPendingCur + 1
            /\ epochAccepted' = epochAccepted + 1
            /\ UNCHANGED <<qrPendingStale, epochQrEmits, staleQrEmits>>
    /\ UNCHANGED <<clientConnected, wireVars, timeVars, restartVars, httpVars>>

\* The callback of qrcode.toDataURL, server.js:28-30: broadcast unless err.
QrEncoded ==
    \E cur \in BOOLEAN, err \in BOOLEAN :
        /\ IF cur THEN qrPendingCur > 0 ELSE qrPendingStale > 0
        /\ qrPendingCur' = IF cur THEN qrPendingCur - 1 ELSE qrPendingCur
        /\ qrPendingStale' = IF cur THEN qrPendingStale ELSE qrPendingStale - 1
        /\ IF err
           THEN UNCHANGED <<wireVars, epochQrEmits, staleQrEmits>>
           ELSE /\ Broadcast("qr")
                /\ epochQrEmits' = IF cur THEN epochQrEmits + 1 ELSE epochQrEmits
                /\ staleQrEmits' = IF cur THEN staleQrEmits ELSE staleQrEmits + 1
        /\ UNCHANGED <<sessionVars, epochAccepted, timeVars, restartVars, httpVars>>

\* What a reset does to the history of the QR guard: the offers accepted so
\* far belong to a finished authentication attempt.
NewEpoch ==
    /\ qrPendingCur' = 0
    /\ qrPendingStale' = qrPendingStale + qrPendingCur
    /\ epochAccepted' = 0
    /\ epochQrEmits' = 0
    /\ UNCHANGED staleQrEmits

\* A reset that leaves qrGenerated as it is.
ResetConnectedOnly ==
    /\ clientConnected' = FALSE
    /\ UNCHANGED qrGenerated

\* server.js:68-69, 76-77, 227-228.
ResetFlags ==
    /\ clientConnected' = FALSE
    /\ qrGenerated' = FALSE

\* client.on("ready"): server.js:58-62.
OnReady ==
    /\ clientConnected' = TRUE
    /\ Broadcast("ready")
    /\ UNCHANGED <<qrGenerated, qrVars, timeVars, restartVars, httpVars>>

\* client.on("auth_failure"): server.js:65-70.
OnAuthFailure ==
    /\ Broadcast("auth_failure")
    /\ ResetFlags
    /\ NewEpoch
    /\ UNCHANGED <<timeVars, restartVars, httpVars>>

\* client.on("error"): server.js:73-78.
OnError ==
    /\ Broadcast("error")
    /\ ResetFlags
    /\ NewEpoch
    /\ UNCHANGED <<timeVars, restartVars, httpVars>>

----------------------------------------------------------------------------
(* Reconnect supervisor. *)

DisconnectsSoFar ==
    Len(cycles) + Cardinality({i \in 1..Len(timers) : timers[i].cb.fn = "restartClient"})

\* client.on("disconnected"): server.js:225-230.  No io.emit here.
OnDisconnected ==
    /\ DisconnectsSoFar < MaxDisconnects
    /\ ResetFlags
    /\ NewEpoch
    /\ timers' = SetTimeout(timers, [fn |-> "restartClient"], Num(0, RestartDelay))
    /\ UNCHANGED <<wireVars, now, restartVars, httpVars>>

\* The timer of line 229 fires: restartClient runs up to client.destroy(),
\* server.js:215-217.
RestartClient ==
    \E i \in 1..Len(timers) :
        /\ CanFire(i)
        /\ timers[i].cb.fn = "restartClient"
        /\ timers' = RemoveAt(timers, i)
        /\ cycles' = Append(cycles, "destroying")
        /\ UNCHANGED <<sessionVars, qrVars, wireVars, now, clientInit, unhandled, httpVars>>

\* client.destroy() resolves: the .then of line 217 calls client.initialize().
DestroyResolved ==
    \E c \in 1..Len(cycles) :
        /\ cycles[c] = "destroying"
        /\ cycles' = [cycles EXCEPT ![c] = "initializing"]
        /\ UNCHANGED <<sessionVars, qrVars, wireVars, timeVars, clientInit, unhandled, httpVars>>

\* A rejection of destroy after which initialize is called all the same.
DestroyRejectedThenInitialize ==
    \E c \in 1..Len(cycles) :
        /\ cycles[c] = "destroying"
        /\ cycles' = [cycles EXCEPT ![c] = "initializing"]
        /\ UNCHANGED <<sessionVars, qrVars, wireVars, timeVars, clientInit, unhandled, httpVars>>

\* client.destroy() rejects: the .catch of line 219 logs it.
DestroyRejected ==
    \E c \in 1..Len(cycles) :
        /\ cycles[c] = "destroying"
        /\ cycles' = [cycles EXCEPT ![c] = "destroyFailed"]
        /\ UNCHANGED <<sessionVars, qrVars, wireVars, timeVars, clientInit, unhandled, httpVars>>

\* The client.initialize() of line 218 settles.  Its promise is not returned
\* from the .then callback, so the .catch of line 219 does not see it.
InitializeSettled ==
    \E c \in 1..Len(cycles), ok \in BOOLEAN :
        /\ cycles[c] = "initializing"
        /\ cycles' = [cycles EXCEPT ![c] = IF ok THEN "initialized" ELSE "initFailed"]
        /\ unhandled' = (unhandled \/ ~ok)
        /\ UNCHANGED <<sessionVars, qrVars, wireVars, timeVars, clientInit, httpVars>>

\* The client.initialize() of line 238 settles; nothing handles a rejection.
StartupSettled ==
    \E ok \in BOOLEAN :
        /\ clientInit = "initializing"
        /\ clientInit' = IF ok THEN "initialized" ELSE "initFailed"
        /\ unhandled' = (unhandled \/ ~ok)
        /\ UNCHANGED <<sessionVars, qrVars, wireVars, timeVars, cycles, httpVars>>

----------------------------------------------------------------------------
(* JavaScript values of a request body: def is FALSE for undefined. *)

Undefined(v) == [def |-> FALSE, val |-> v]
Defined(v)   == [def |-> TRUE, val |-> v]

\* !x of an array, a string, a number.
FalsyArray(x)  == ~x.def
FalsyString(x) == ~x.def \/ x.val = ""
FalsyNumber(x) == ~x.def \/ x.val = Num(0, 0)

SeqsUpTo(S, n) == UNION {[1..k -> S] : k \in 0..n}

(* Recipient addresses.  A string is the sequence of its characters. *)

Digits == {"0", "1", "2", "3", "4", "5", "6", "7", "8", "9"}

IsDigit(ch) == ch \in Digits

Suffix == <<"@", "c", ".", "u", "s">>

\* A formatting that keeps every character.
KeepAll(str) == str \o Suffix

\* num.replace(/\D/g, "") + "@c.us": server.js:89, 198.
Normalize(str) == SelectSeq(str, IsDigit) \o Suffix

\* The part of an address before the suffix.
LocalPart(addr) == SubSeq(addr, 1, Len(addr) - Len(Suffix))

\* The numbers arrays of the requests: no recipient, one recipient that has
\* no digit, two recipients with punctuation.
NumbersArrays ==
    {<<>>,
     <<<<"a", "b">>>>,
     <<<<"+", "1", "-", "2">>, <<"7">>>>}

ThreeNumbers == <<<<"1">>, <<"2">>, <<"3">>>>

MessageArgs == {Undefined(""), Defined(""), Defined("hi")}

\* The delays of the requests: none, 0 ms.
DelayArgs == {Undefined(Num(0, 0)), Defined(Num(0, 0))}

\* A delay of 2^30 ms.
LongDelay == Defined(Num(1, 0))

\* The bodies of the POST /send requests: the two recipients with every
\* delay, the other arrays with no delay, three recipients with the long
\* delay, and the bodies that lack numbers or message.
SendBodies ==
    {[numbers |-> Defined(a), message |-> Defined("hi"), delay |-> d] :
        a \in {b \in NumbersArrays : Len(b) = 2}, d \in DelayArgs}
    \cup {[numbers |-> Defined(a), message |-> Defined("hi"), delay |-> Undefined(Num(0, 0))] :
            a \in NumbersArrays}
    \cup {[numbers |-> Defined(ThreeNumbers), message |-> Defined("hi"), delay |-> LongDelay]}
    \cup {[numbers |-> Undefined(<<>>), message |-> Defined("hi"),
            delay |-> Undefined(Num(0, 0))]}
    \cup {[numbers |-> Defined(<<<<"7">>>>), message |-> m, delay |-> Undefined(Num(0, 0))] :
            m \in {Undefined(""), Defined("")}}

\* The timestamps of the requests made at instant t: none, the epoch, the
\* instant before, the instant itself, and two ms ahead.
TimestampArgs(t) ==
    {Undefined(Num(0, 0)), Defined(Num(0, 0)), Defined(Num(0, t - 1)), Defined(Num(0, t)),
     Defined(Num(0, t + 2))}

\* The timestamp 2^31 ms after the instant t.
FarTimestamp(t) == Defined(Num(2, t))

\* The bodies of the POST /schedule requests made at instant t: the two
\* recipients with every timestamp, the other arrays two ms ahead, one
\* recipient far ahead, and the bodies that lack numbers or message.
ScheduleBodies(t) ==
    {[numbers |-> Defined(a), message |-> Defined("hi"), timestamp |-> ts] :
        a \in {b \in NumbersArrays : Len(b) = 2}, ts \in TimestampArgs(t)}
    \cup {[numbers |-> Defined(a), message |-> Defined("hi"),
            timestamp |-> Defined(Num(0, t + 2))] : a \in NumbersArrays}
    \cup {[numbers |-> Defined(<<<<"7">>>>), message |-> Defined("hi"),
            timestamp |-> FarTimestamp(t)]}
    \cup {[numbers |-> Undefined(<<>>), message |-> Defined("hi"), timestamp |-> Defined(Num(0, t + 2))]}
    \cup {[numbers |-> Defined(<<<<"7">>>>), message |-> m, timestamp |-> Defined(Num(0, t + 2))] :
            m \in {Undefined(""), Defined("")}}

----------------------------------------------------------------------------
(* Fire-and-forget endpoints: POST /send and POST /schedule. *)

Response(status, body) == [status |-> status, body |-> body]

\* The requests arrive in the first MaxTime ms of the run.
InWindow == now <= StartInstant + MaxTime

BulkSoFar == Cardinality({r \in 1..Len(requests) : requests[r].ep \in {"send", "schedule"}})

\* client.sendMessage(to, ...) is called: one more send attempt, not yet settled.
Attempt(r, idx, to) ==
    [req |-> r, idx |-> idx, to |-> to, at |-> now,
     answered |-> requests[r].resp.status # 0, st |-> "pending"]

\* server.js:101, the delay of the timer of recipient index.
SendDelay(index, delay) == Times(index, delay)

\* formattedNumbers.forEach(... setTimeout ...): server.js:93-102.
ArmSendTimers(ts, r, formatted, delay) ==
    ts \o [i \in 1..Len(formatted) |->
              [cb  |-> [fn |-> "send", req |-> r, idx |-> i - 1, to |-> formatted[i]],
               ms  |-> TimerMs(SendDelay(i - 1, delay)),
               due |-> now + TimerMs(SendDelay(i - 1, delay))]]

\* app.post("/send"): server.js:81-105.
PostSend ==
    \E body \in SendBodies :
        LET r       == Len(requests) + 1
            numbers == body.numbers
            message == body.message
            delay   == IF body.delay.def THEN body.delay.val ELSE Num(0, DefaultDelay)
            req     == [ep |-> "send", numbers |-> numbers, message |-> message,
                        delay |-> delay, at |-> now]
        IN  /\ BulkSoFar < MaxBulk
            /\ InWindow
            /\ IF FalsyArray(numbers) \/ FalsyString(message)
               THEN /\ requests' = Append(requests,
                            req @@ [resp |-> Response(400, "Missing parameters")])
                    /\ UNCHANGED timers
               ELSE LET formatted == [i \in 1..Len(numbers.val) |-> Normalize(numbers.val[i])]
                    IN  /\ timers' = ArmSendTimers(timers, r, formatted, delay)
                        /\ requests' = Append(requests,
                                req @@ [resp |-> Response(200, "Messages are being sent.")])
            /\ UNCHANGED <<sessionVars, qrVars, wireVars, now, restartVars, sends, files>>

\* A timer armed at line 94 fires: the callback calls client.sendMessage,
\* server.js:94-96.
SendTimerFires ==
    \E i \in 1..Len(timers) :
        /\ CanFire(i)
        /\ timers[i].cb.fn = "send"
        /\ timers' = RemoveAt(timers, i)
        /\ sends' = sends \cup {Attempt(timers[i].cb.req, timers[i].cb.idx, timers[i].cb.to)}
        /\ UNCHANGED <<sessionVars, qrVars, wireVars, now, restartVars, requests, files>>

\* server.js:194, the test of the computed delay.
TimestampRejected(delay) == AtMostZero(delay)

\* app.post("/schedule"): server.js:187-212.
PostSchedule ==
    \E body \in ScheduleBodies(now) :
        LET r         == Len(requests) + 1
            numbers   == body.numbers
            message   == body.message
            timestamp == body.timestamp
            delay     == Minus(timestamp.val, now)
            req       == [ep |-> "schedule", numbers |-> numbers, message |-> message,
                          timestamp |-> timestamp, at |-> now]
        IN  /\ BulkSoFar < MaxBulk
            /\ InWindow
            /\ IF FalsyArray(numbers) \/ FalsyString(message) \/ FalsyNumber(timestamp)
               THEN /\ requests' = Append(requests,
                            req @@ [resp |-> Response(400, "Missing parameters")])
                    /\ UNCHANGED timers
               ELSE IF TimestampRejected(delay)
               THEN /\ requests' = Append(requests,
                            req @@ [resp |-> Response(400, "Invalid timestamp")])
                    /\ UNCHANGED timers
               ELSE LET formatted == [i \in 1..Len(numbers.val) |-> Normalize(numbers.val[i])]
                    IN  /\ timers' = SetTimeout(timers,
                                [fn |-> "schedule", req |-> r, to |-> formatted], delay)
                        /\ requests' = Append(requests,
                                req @@ [resp |-> Response(200, "Message scheduled successfully.")])
            /\ UNCHANGED <<sessionVars, qrVars, wireVars, now, restartVars, sends, files>>

\* The timer armed at line 200 fires: forEach starts one async function per
\* recipient, and each runs up to its await of client.sendMessage,
\* server.js:200-203.
ScheduleTimerFires ==
    \E i \in 1..Len(timers) :
        /\ CanFire(i)
        /\ timers[i].cb.fn = "schedule"
        /\ timers' = RemoveAt(timers, i)
        /\ sends' = sends \cup {Attempt(timers[i].cb.req, k - 1, timers[i].cb.to[k]) :
                                    k \in 1..Len(timers[i].cb.to)}
        /\ UNCHANGED <<sessionVars, qrVars, wireVars, now, restartVars, requests, files>>

\* A failed send that rewrites the response of its request.
BulkSettledAnswers500 ==
    \E s \in sends, ok \in BOOLEAN :
        /\ s.st = "pending"
        /\ requests[s.req].ep \in {"send", "schedule"}
        /\ sends' = (sends \ {s}) \cup {[s EXCEPT !.st = IF ok THEN "sent" ELSE "failed"]}
        /\ requests' = IF ok THEN requests
                       ELSE [requests EXCEPT ![s.req].resp = Response(500, "failed")]
        /\ UNCHANGED <<sessionVars, qrVars, wireVars, timeVars, restartVars, files>>

\* The await of line 96 or 203 settles: logged either way, server.js:97-100,
\* 204-207.
BulkSettled ==
    \E s \in sends, ok \in BOOLEAN :
        /\ s.st = "pending"
        /\ requests[s.req].ep \in {"send", "schedule"}
        /\ sends' = (sends \ {s}) \cup {[s EXCEPT !.st = IF ok THEN "sent" ELSE "failed"]}
        /\ UNCHANGED <<sessionVars, qrVars, wireVars, timeVars, restartVars, requests, files>>

----------------------------------------------------------------------------
(* Synchronous endpoints: POST /send-group and POST /send-media. *)

FalsyText(x) == ~x.def \/ x.val = <<>>

GroupSoFar == Cardinality({r \in 1..Len(requests) : requests[r].ep = "send-group"})

MediaSoFar == Cardinality({r \in 1..Len(requests) : requests[r].ep = "send-media"})

Pending == Response(0, "")

\* String.prototype.toLowerCase over the letters of the model.
LowerChar(ch) ==
    CASE ch = "A" -> "a"
      [] ch = "B" -> "b"
      [] OTHER -> ch

ToLowerCase(str) == [i \in 1..Len(str) |-> LowerChar(str[i])]

\* What client.getChats() may return: chats with isGroup, name and id.
Chats ==
    {[id |-> <<"g", "1">>, isGroup |-> TRUE,  name |-> <<"A", "b">>],
     [id |-> <<"g", "2">>, isGroup |-> TRUE,  name |-> <<"a", "b">>],
     [id |-> <<"u", "3">>, isGroup |-> FALSE, name |-> <<"b">>],
     [id |-> <<"g", "4">>, isGroup |-> TRUE,  name |-> <<"B">>]}

ChatLists == SeqsUpTo(Chats, 2)

GroupNameArgs ==
    {Undefined(<<>>), Defined(<<>>), Defined(<<"a", "B">>), Defined(<<"b">>), Defined(<<"a">>)}

\* The predicate without its isGroup half.
AnyChatMatches(chat, groupName) == ToLowerCase(chat.name) = ToLowerCase(groupName)

\* The predicate of chats.find, server.js:128.
GroupMatches(chat, groupName) ==
    chat.isGroup /\ ToLowerCase(chat.name) = ToLowerCase(groupName)

\* chats.find(...): the index of the first chat that matches, 0 for undefined.
FindGroup(chats, groupName) ==
    LET hits == {i \in 1..Len(chats) : GroupMatches(chats[i], groupName)}
    IN  IF hits = {} THEN 0 ELSE Min(hits)

\* app.post("/send-group"): server.js:119-127, up to the await of getChats.
PostSendGroup ==
    \E groupName \in GroupNameArgs, message \in MessageArgs :
        LET req == [ep |-> "send-group", groupName |-> groupName, message |-> message,
                    at |-> now, fetched |-> Undefined(<<>>)]
        IN  /\ GroupSoFar < MaxGroup
            /\ IF FalsyText(groupName) \/ FalsyString(message)
               THEN requests' = Append(requests,
                        req @@ [phase |-> "done",
                                resp |-> Response(400, "Group name and message required")])
               ELSE requests' = Append(requests,
                        req @@ [phase |-> "getChats", resp |-> Pending])
            /\ UNCHANGED <<sessionVars, qrVars, wireVars, timeVars, restartVars, sends, files>>

\* The await of line 127 settles: server.js:127-134 up to the await of
\* sendMessage, or the catch of line 136.
GetChatsSettled ==
    \E r \in 1..Len(requests), ok \in BOOLEAN, chats \in ChatLists :
        /\ requests[r].ep = "send-group"
        /\ requests[r].phase = "getChats"
        /\ IF ~ok
           THEN /\ requests' = [requests EXCEPT ![r].phase = "done",
                                                ![r].resp = Response(500, "getChats failed")]
                /\ UNCHANGED sends
           ELSE LET g == FindGroup(chats, requests[r].groupName.val)
                IN  IF g = 0
                    THEN /\ requests' = [requests EXCEPT ![r].phase = "done",
                                                         ![r].fetched = Defined(chats),
                                                         ![r].resp = Response(404, "not found")]
                         /\ UNCHANGED sends
                    ELSE /\ requests' = [requests EXCEPT ![r].phase = "sending",
                                                         ![r].fetched = Defined(chats)]
                         /\ sends' = sends \cup {Attempt(r, 0, chats[g].id)}
        /\ UNCHANGED <<sessionVars, qrVars, wireVars, timeVars, restartVars, files>>

\* The await of line 134 settles: server.js:135, or the catch of line 136.
GroupSendSettled ==
    \E s \in sends, ok \in BOOLEAN :
        /\ s.st = "pending"
        /\ requests[s.req].ep = "send-group"
        /\ sends' = (sends \ {s}) \cup {[s EXCEPT !.st = IF ok THEN "sent" ELSE "failed"]}
        /\ requests' = [requests EXCEPT
                ![s.req].phase = "done",
                ![s.req].resp = IF ok THEN Response(200, "Message sent")
                                ELSE Response(500, "sendMessage failed")]
        /\ UNCHANGED <<sessionVars, qrVars, wireVars, timeVars, restartVars, files>>

(* POST /send-media.  multer stores the upload under its original name. *)

FileArgs == {Undefined(""), Defined("a.png"), Defined("b.png")}

NumberArgs == {Undefined(<<>>), Defined(<<>>), Defined(<<"7">>)}

\* multer.diskStorage, server.js:150-155: req.file.path.
UploadPath(originalname) == <<"uploads", originalname>>

\* upload.single("media") then app.post("/send-media"): server.js:159-167, up
\* to the await of getNumberId.
PostSendMedia ==
    \E file \in FileArgs, number \in NumberArgs :
        LET req == [ep |-> "send-media", file |-> file, number |-> number, at |-> now]
        IN  /\ MediaSoFar < MaxMedia
            /\ files' = IF file.def THEN files \cup {UploadPath(file.val)} ELSE files
            /\ IF ~file.def \/ FalsyText(number)
               THEN requests' = Append(requests,
                        req @@ [phase |-> "done",
                                resp |-> Response(400, "Number and media file required")])
               ELSE requests' = Append(requests,
                        req @@ [phase |-> "resolving", resp |-> Pending])
            /\ UNCHANGED <<sessionVars, qrVars, wireVars, timeVars, restartVars, sends>>

\* The await of line 167 settles: server.js:168-173 up to the await of
\* sendMessage, or the catch of line 179.  getNumberId rejects, or resolves
\* to null or to an id; MessageMedia.fromFilePath throws when the file is gone.
NumberIdSettled ==
    \E r \in 1..Len(requests), outcome \in {"rejected", "null", "id"} :
        /\ requests[r].ep = "send-media"
        /\ requests[r].phase = "resolving"
        /\ IF outcome = "rejected"
           THEN /\ requests' = [requests EXCEPT ![r].phase = "done",
                                                ![r].resp = Response(500, "getNumberId failed")]
                /\ UNCHANGED sends
           ELSE IF outcome = "null"
           THEN /\ requests' = [requests EXCEPT ![r].phase = "done",
                                                ![r].resp = Response(400, "Invalid WhatsApp number")]
                /\ UNCHANGED sends
           ELSE IF UploadPath(requests[r].file.val) \notin files
           THEN /\ requests' = [requests EXCEPT ![r].phase = "done",
                                                ![r].resp = Response(500, "ENOENT")]
                /\ UNCHANGED sends
           ELSE /\ requests' = [requests EXCEPT ![r].phase = "sending"]
                /\ sends' = sends \cup {Attempt(r, 0, requests[r].number.val \o Suffix)}
        /\ UNCHANGED <<sessionVars, qrVars, wireVars, timeVars, restartVars, files>>

\* The await of line 173 settles: server.js:176-178, or the catch of line
\* 179.  fs.unlinkSync throws when the file is gone.
MediaSendSettled ==
    \E s \in sends, ok \in BOOLEAN :
        LET path == UploadPath(requests[s.req].file.val)
        IN  /\ s.st = "pending"
            /\ requests[s.req].ep = "send-media"
            /\ sends' = (sends \ {s}) \cup {[s EXCEPT !.st = IF ok THEN "sent" ELSE "failed"]}
            /\ IF ~ok
               THEN /\ requests' = [requests EXCEPT
                            ![s.req].phase = "done",
                            ![s.req].resp = Response(500, "sendMessage failed")]
                    /\ UNCHANGED files
               ELSE IF path \notin files
               THEN /\ requests' = [requests EXCEPT
                            ![s.req].phase = "done",
                            ![s.req].resp = Response(500, "ENOENT")]
                    /\ UNCHANGED files
               ELSE /\ files' = files \ {path}
                    /\ requests' = [requests EXCEPT
                            ![s.req].phase = "done",
                            ![s.req].resp = Response(200, "Media sent successfully.")]
            /\ UNCHANGED <<sessionVars, qrVars, wireVars, timeVars, restartVars>>

----------------------------------------------------------------------------
(* The socket.io event getContacts: server.js:37-50. *)

ListSoFar == Cardinality({r \in 1..Len(requests) : requests[r].ep = "getContacts"})

\* What client.getContacts() can hold: a named user, a user with no name, a
\* group, a user whose name is the empty string.
Contacts ==
    {[isUser |-> TRUE,  name |-> Defined("Al"),  number |-> "1"],
     [isUser |-> TRUE,  name |-> Undefined(""),  number |-> "2"],
     [isUser |-> FALSE, name |-> Defined("Gr"),  number |-> "3"],
     [isUser |-> TRUE,  name |-> Defined(""),    number |-> "4"]}

\* The contact lists: up to three contacts, none twice.
ContactLists ==
    {l \in SeqsUpTo(Contacts, 3) : \A i, j \in 1..Len(l) : l[i] = l[j] => i = j}

Pages == {1, 2, 3}

PageSizes == {1, 2}

\* Array.prototype.slice(start, end): a negative index counts from the end,
\* and both are clamped to the array.
SliceIndex(i, len) ==
    IF i < 0 THEN (IF len + i < 0 THEN 0 ELSE len + i)
    ELSE (IF i > len THEN len ELSE i)

Slice(arr, start, end) ==
    LET from == SliceIndex(start, Len(arr))
        to   == SliceIndex(end, Len(arr))
    IN  IF from < to THEN SubSeq(arr, from + 1, to) ELSE <<>>

IsUser(c) == c.isUser

\* c => ({ name: c.name || "Unknown", number: c.number }): server.js:43.
ContactEntry(c) ==
    [name |-> IF FalsyString(c.name) THEN "Unknown" ELSE c.name.val, number |-> c.number]

MapEntries(arr) == [i \in 1..Len(arr) |-> ContactEntry(arr[i])]

\* The page cut out of all contacts, and the users kept afterwards.
SliceThenFilter(contacts, page, pageSize) ==
    MapEntries(SelectSeq(Slice(contacts, (page - 1) * pageSize, page * pageSize), IsUser))

\* contacts.filter(...).slice(...).map(...): server.js:40-43.
ContactsPage(contacts, page, pageSize) ==
    MapEntries(Slice(SelectSeq(contacts, IsUser), (page - 1) * pageSize, page * pageSize))

NoReply == [event |-> "", data |-> <<>>]

\* socket.on("getContacts", ...) runs up to its await: server.js:37-39.
GetContacts ==
    \E page \in Pages, pageSize \in PageSizes :
        /\ ListSoFar < MaxList
        /\ requests' = Append(requests,
                [ep |-> "getContacts", page |-> page, pageSize |-> pageSize,
                 phase |-> "fetching", fetched |-> <<>>, reply |-> NoReply])
        /\ UNCHANGED <<sessionVars, qrVars, wireVars, timeVars, restartVars, sends, files>>

\* client.getContacts() settles: the page goes to the asking socket, or the
\* error event does, server.js:39-48.
ContactsSettled ==
    \E r \in 1..Len(requests), ok \in BOOLEAN, contacts \in ContactLists :
        /\ requests[r].ep = "getContacts"
        /\ requests[r].phase = "fetching"
        /\ ~ok => contacts = <<>>
        /\ requests' = [requests EXCEPT
                ![r].phase = "done",
                ![r].fetched = contacts,
                ![r].reply = IF ok
                    THEN [event |-> "contactsList",
                          data |-> ContactsPage(contacts, requests[r].page, requests[r].pageSize)]
                    ELSE [event |-> "error", data |-> "Failed to fetch contacts"]]
        /\ UNCHANGED <<sessionVars, qrVars, wireVars, timeVars, restartVars, sends, files>>

----------------------------------------------------------------------------
(* The formatting of one recipient, server.js:89 and 198, applied to a     *)
(* string and then to its own result.                                      *)

\* Two digits, two punctuation marks, and the characters of the suffix.
Alphabet == {"0", "7", "+", "-", "@", "c", ".", "u", "s"}

\* The strings of up to MaxLen characters, and the same followed by "@c.us".
RawStrings ==
    SeqsUpTo(Alphabet, MaxLen) \cup {x \o Suffix : x \in SeqsUpTo(Alphabet, MaxLen)}

\* num => num.replace(/\D/g, "") + "@c.us" on the raw string.
FormatRaw ==
    /\ requests # <<>>
    /\ requests[1].ep = "format"
    /\ requests[1].phase = "raw"
    /\ requests' = [requests EXCEPT ![1].phase = "once",
                                    ![1].once = Normalize(requests[1].raw)]
    /\ UNCHANGED <<sessionVars, qrVars, wireVars, timeVars, restartVars, sends, files>>

\* The same on the formatted string.
FormatAgain ==
    /\ requests # <<>>
    /\ requests[1].ep = "format"
    /\ requests[1].phase = "once"
    /\ requests' = [requests EXCEPT ![1].phase = "twice",
                                    ![1].twice = Normalize(requests[1].once)]
    /\ UNCHANGED <<sessionVars, qrVars, wireVars, timeVars, restartVars, sends, files>>

----------------------------------------------------------------------------

Init ==
    /\ clientConnected = FALSE
    /\ qrGenerated = FALSE
    /\ qrPendingCur = 0
    /\ qrPendingStale = 0
    /\ epochAccepted = 0
    /\ epochQrEmits = 0
    /\ staleQrEmits = 0
    /\ nEmits = 0
    /\ lastEmit = "none"
    /\ now = StartInstant
    /\ timers = <<>>
    /\ cycles = <<>>
    /\ clientInit = "initializing"
    /\ unhandled = FALSE
    /\ requests = <<>>
    /\ sends = {}
    /\ files = {}

SessionNext ==
    \/ OnQr
    \/ QrEncoded
    \/ OnReady
    \/ OnAuthFailure
    \/ OnError
    \/ OnDisconnected
    \/ RestartClient
    \/ DestroyResolved
    \/ DestroyRejected
    \/ InitializeSettled
    \/ Tick

\* The parts of the program, each with the callbacks that write its state.
SpecSession == Init /\ [][SessionNext]_vars

BulkNext ==
    \/ PostSend
    \/ PostSchedule
    \/ SendTimerFires
    \/ ScheduleTimerFires
    \/ BulkSettled
    \/ Tick

SpecBulk == Init /\ [][BulkNext]_vars

\* Node runs an expired timer's callback, and time does not stop.
SpecBulkFair ==
    /\ SpecBulk
    /\ WF_vars(Tick)
    /\ WF_vars(SendTimerFires)
    /\ WF_vars(ScheduleTimerFires)

GroupNext ==
    \/ PostSendGroup
    \/ GetChatsSettled
    \/ GroupSendSettled

SpecGroup == Init /\ [][GroupNext]_vars

MediaNext ==
    \/ PostSendMedia
    \/ NumberIdSettled
    \/ MediaSendSettled

SpecMedia == Init /\ [][MediaNext]_vars

ContactsNext ==
    \/ GetContacts
    \/ ContactsSettled

SpecContacts == Init /\ [][ContactsNext]_vars

\* One raw recipient string to format, nothing else in flight.
InitFormat ==
    /\ clientConnected = FALSE
    /\ qrGenerated = FALSE
    /\ qrPendingCur = 0
    /\ qrPendingStale = 0
    /\ epochAccepted = 0
    /\ epochQrEmits = 0
    /\ staleQrEmits = 0
    /\ nEmits = 0
    /\ lastEmit = "none"
    /\ now = StartInstant
    /\ timers = <<>>
    /\ cycles = <<>>
    /\ clientInit = "initializing"
    /\ unhandled = FALSE
    /\ \E x \in RawStrings :
            requests = <<[ep |-> "format", raw |-> x, phase |-> "raw",
                          once |-> <<>>, twice |-> <<>>]>>
    /\ sends = {}
    /\ files = {}

FormatNext ==
    \/ FormatRaw
    \/ FormatAgain

SpecFormat == InitFormat /\ [][FormatNext]_vars

\* The whole program.
Next ==
    \/ StartupSettled \/ SessionNext \/ BulkNext \/ GroupNext \/ MediaNext
    \/ ContactsNext \/ FormatNext

Spec == Init /\ [][Next]_vars

----------------------------------------------------------------------------
(* Properties of the session flags and the reconnect supervisor. *)

RestartTimers(ts) == {i \in 1..Len(ts) : ts[i].cb.fn = "restartClient"}

Reset == OnAuthFailure \/ OnError \/ OnDisconnected

\* C1: between two resets at most one offer passes the guard and at most one
\* qr broadcast is made for the offers of that stretch; an offer that finds
\* clientConnected or qrGenerated set changes nothing and broadcasts
\* nothing; an offer that finds both clear sets qrGenerated.
C1_QrGuard ==
    /\ [](epochAccepted <= 1 /\ epochQrEmits <= 1)
    /\ [][OnQr => IF clientConnected \/ qrGenerated
                  THEN UNCHANGED vars
                  ELSE qrGenerated' /\ nEmits' = nEmits]_vars

C1_Witness ==
    /\ epochAccepted = 1
    /\ epochQrEmits = 1
    /\ lastEmit = "qr"
    /\ qrGenerated
    /\ ~clientConnected

\* C2: auth_failure, error and disconnected each leave both flags false;
\* ready sets clientConnected; nothing else writes clientConnected; so
\* qrGenerated is false right after clientConnected falls.
C2_ResetPolicy ==
    [][/\ Reset => ~clientConnected' /\ ~qrGenerated'
       /\ OnReady => clientConnected'
       /\ clientConnected' # clientConnected => OnReady \/ Reset
       /\ clientConnected /\ ~clientConnected' => ~qrGenerated']_vars

C2_Witness ==
    /\ lastEmit = "auth_failure"
    /\ epochAccepted = 0
    /\ qrPendingStale > 0
    /\ ~clientConnected
    /\ ~qrGenerated

\* C7: a disconnected event arms exactly one restart timer, RestartDelay ms
\* ahead, and nothing else arms one; a restart cycle starts only when such a
\* timer has expired; client.initialize() is called in a cycle only when its
\* client.destroy() resolved; when destroy rejects, initialize is not called,
\* and no failed cycle arms a timer or starts a cycle.
C7_SingleShotRestart ==
    [][/\ OnDisconnected =>
            /\ Len(timers') = Len(timers) + 1
            /\ timers'[Len(timers')].cb.fn = "restartClient"
            /\ timers'[Len(timers')].due = now + RestartDelay
       /\ DisconnectsSoFar' # DisconnectsSoFar =>
            OnDisconnected /\ DisconnectsSoFar' = DisconnectsSoFar + 1
       /\ Len(cycles') # Len(cycles) =>
            \E i \in RestartTimers(timers) :
                /\ timers[i].due <= now
                /\ timers' = RemoveAt(timers, i)
                /\ cycles' = Append(cycles, "destroying")
       /\ \A c \in 1..Len(cycles) :
            /\ cycles'[c] = "initializing" /\ cycles[c] # "initializing" =>
                    cycles[c] = "destroying" /\ DestroyResolved
            /\ cycles[c] \in {"destroyFailed", "initFailed", "initialized"} =>
                    cycles'[c] = cycles[c]
       /\ DestroyRejected =>
            /\ \A c \in 1..Len(cycles) : cycles'[c] # "initializing" \/ cycles[c] = "initializing"
            /\ UNCHANGED timers]_vars

C7_Witness ==
    /\ Len(cycles) = 1
    /\ cycles[1] = "destroyFailed"
    /\ timers = <<>>
    /\ now >= RestartDelay

\* C8: each of the ready, auth_failure, error and disconnected handlers
\* makes one broadcast in the step in which it writes the flags.
C8_EveryLifecycleEventBroadcast ==
    [][OnReady \/ OnAuthFailure \/ OnError \/ OnDisconnected => nEmits' = nEmits + 1]_vars

\* C15: of the offers made since the last reset at most one is broadcast;
\* and while the client is not connected, once the encoding of the offer
\* that passed the guard has called back, that offer has been broadcast,
\* whether or not an encoding can fail.
C15_ResetReenablesOneQr ==
    /\ epochQrEmits <= 1
    /\ ~clientConnected /\ epochAccepted >= 1 /\ qrPendingCur = 0 => epochQrEmits = 1

\* C16: when client.destroy() or client.initialize() of a restart cycle
\* fails, the failure is caught: no promise rejection is left unhandled.
C16_RestartFailuresCaught ==
    (\E c \in 1..Len(cycles) : cycles[c] \in {"destroyFailed", "initFailed"}) => ~unhandled

\* C18: every qr broadcast is made while clientConnected is false, and for
\* the offer that last set qrGenerated, never for an offer accepted before
\* the last reset.
C18_QrBroadcastIsCurrent ==
    [][QrEncoded /\ nEmits' # nEmits =>
            /\ ~clientConnected
            /\ staleQrEmits' = staleQrEmits]_vars

\* C19: when the restart timer fires and restartClient calls
\* client.destroy(), and when it calls client.initialize(), both flags are
\* false, whatever ready and qr events came since the disconnected event.
C19_FlagsClearAtRestart ==
    [][RestartClient \/ DestroyResolved => ~clientConnected /\ ~qrGenerated]_vars

InProgress == {c \in 1..Len(cycles) : cycles[c] \in {"destroying", "initializing"}}

\* C20: at most one restart cycle is between its call of client.destroy()
\* and the settling of its client.initialize(), however many disconnected
\* events came.
C20_OneRestartInProgress == Cardinality(InProgress) <= 1

----------------------------------------------------------------------------
(* Properties of the fire-and-forget endpoints. *)

AttemptsOf(r) == {s \in sends : s.req = r}

Accepted(r, ep) ==
    /\ r \in 1..Len(requests)
    /\ requests[r].ep = ep
    /\ requests[r].resp.status = 200

Recipients(r) == Len(requests[r].numbers.val)

AllIssued(r) == {s.idx : s \in AttemptsOf(r)} = 0..(Recipients(r) - 1)

\* C3: for an accepted POST /send with n recipients and spacing s, every
\* attempt is for a recipient index below n and there is at most one per
\* index; the attempt of index i is issued at least i*s ms after acceptance
\* and after the response; and all n attempts are eventually issued, however
\* the others settle.
C3_BulkSendSchedule ==
    /\ [](\A r \in 1..Len(requests) : Accepted(r, "send") =>
            /\ \A s \in AttemptsOf(r) :
                /\ s.idx \in 0..(Recipients(r) - 1)
                /\ s.answered
                /\ Reached(s.at - requests[r].at, Times(s.idx, requests[r].delay))
            /\ \A s, t \in AttemptsOf(r) : s.idx = t.idx => s = t)
    /\ \A r \in 1..MaxBulk :
            [](Accepted(r, "send") => <>(Accepted(r, "send") /\ AllIssued(r)))

PassesValidation(r) ==
    LET q == requests[r]
    IN  /\ q.ep \in {"send", "schedule"}
        /\ q.numbers.def
        /\ q.message.def /\ q.message.val # ""
        /\ q.ep = "schedule" => q.timestamp.def /\ ~Reached(q.at, q.timestamp.val)

Acknowledgment(ep) ==
    IF ep = "send" THEN Response(200, "Messages are being sent.")
    ELSE Response(200, "Message scheduled successfully.")

\* C4: a POST /send or POST /schedule request that passes validation is
\* answered with the 200 acknowledgment, whatever the outcomes of its sends;
\* the settling of a send, failed or not, changes neither a response nor the
\* session flags nor anything else but the attempt itself.
C4_FireAndForget ==
    /\ [](\A r \in 1..Len(requests) :
            PassesValidation(r) => requests[r].resp = Acknowledgment(requests[r].ep))
    /\ [][BulkSettled =>
            UNCHANGED <<requests, sessionVars, qrVars, wireVars, timeVars, restartVars>>]_vars

C4_Witness ==
    \E r \in 1..Len(requests) :
        /\ PassesValidation(r)
        /\ requests[r].ep = "schedule"
        /\ Recipients(r) = 2
        /\ AllIssued(r)
        /\ \A s \in AttemptsOf(r) : s.st = "failed"
        /\ requests[r].resp = Acknowledgment("schedule")

HasDigitlessRecipient(r) ==
    /\ requests[r].numbers.def
    /\ \E i \in 1..Recipients(r) : \A k \in 1..Len(requests[r].numbers.val[i]) :
            ~IsDigit(requests[r].numbers.val[i][k])

\* C5: a POST /send or POST /schedule request with a recipient that has no
\* digit is rejected, and no send attempt goes to an address whose local
\* part is empty.
C5_DigitlessRecipientRejected ==
    /\ \A r \in 1..Len(requests) :
            requests[r].ep \in {"send", "schedule"} /\ HasDigitlessRecipient(r) =>
                requests[r].resp.status = 400
    /\ \A s \in sends : LocalPart(s.to) # <<>>

\* C6: a POST /schedule request with numbers and message present and a
\* timestamp at or before the current instant, 0 included, is answered 400
\* "Invalid timestamp" and no send attempt is issued for it.
C6_PastTimestampInvalid ==
    \A r \in 1..Len(requests) :
        LET q == requests[r]
        IN  /\ q.ep = "schedule"
            /\ q.numbers.def
            /\ q.message.def /\ q.message.val # ""
            /\ q.timestamp.def /\ Reached(q.at, q.timestamp.val)
            => q.resp = Response(400, "Invalid timestamp") /\ AttemptsOf(r) = {}

ScheduleTimersOf(r) ==
    {i \in 1..Len(timers) : timers[i].cb.fn = "schedule" /\ timers[i].cb.req = r}

\* C11: an accepted POST /schedule with n recipients has one timer, due at
\* its timestamp, and no attempt while that timer is pending; no send
\* attempt of the request is
\* issued before the timestamp or before the response; and the n attempts
\* are issued in one step, so that no state shows only some of them.
C11_ScheduleFiresOnceAtTimestamp ==
    \A r \in 1..Len(requests) : Accepted(r, "schedule") =>
        /\ \A i \in ScheduleTimersOf(r) : Reached(timers[i].due, requests[r].timestamp.val)
        /\ Cardinality(ScheduleTimersOf(r)) <= 1
        /\ ScheduleTimersOf(r) # {} => AttemptsOf(r) = {}
        /\ \A s \in AttemptsOf(r) :
            /\ s.answered
            /\ Reached(s.at, requests[r].timestamp.val)
        /\ AttemptsOf(r) = {} \/ AllIssued(r)

\* C12: within one accepted POST /send, whatever its delay, the attempt of
\* recipient i is issued only when the attempts of all recipients before i
\* have been issued; the attempts settle in any order.
C12_IssuedInIndexOrder ==
    \A r \in 1..Len(requests) : Accepted(r, "send") =>
        \A s \in AttemptsOf(r) :
            \A j \in 0..(s.idx - 1) : \E t \in AttemptsOf(r) : t.idx = j

----------------------------------------------------------------------------
(* Properties of the synchronous endpoints. *)

SameLetter(a, b) == a = b \/ {a, b} \in {{"A", "a"}, {"B", "b"}}

EqualIgnoringCase(x, y) ==
    Len(x) = Len(y) /\ \A i \in 1..Len(x) : SameLetter(x[i], y[i])

\* The groups of a chat list whose name is groupName up to case.
GroupsNamed(chats, groupName) ==
    {i \in 1..Len(chats) : chats[i].isGroup /\ EqualIgnoringCase(chats[i].name, groupName)}

\* C9: a POST /send-group request whose groupName is, up to case, the name
\* of no group of the fetched chat list is answered 404 and issues no send
\* attempt; a send attempt of such a request is issued only when the fetch
\* succeeded and found such a group, and it goes to the id of one.
C9_GroupNotFound ==
    \A r \in 1..Len(requests) : requests[r].ep = "send-group" =>
        LET q == requests[r]
        IN  /\ q.fetched.def /\ GroupsNamed(q.fetched.val, q.groupName.val) = {} =>
                q.resp.status = 404 /\ AttemptsOf(r) = {}
            /\ \A s \in AttemptsOf(r) :
                /\ q.fetched.def
                /\ \E i \in GroupsNamed(q.fetched.val, q.groupName.val) :
                        s.to = q.fetched.val[i].id

C9_Witness ==
    \E r \in 1..Len(requests) :
        /\ requests[r].ep = "send-group"
        /\ requests[r].groupName.val = <<"b">>
        /\ requests[r].fetched.def
        /\ Len(requests[r].fetched.val) = 2
        /\ \E i \in 1..2 : requests[r].fetched.val[i].name = <<"b">>
        /\ requests[r].resp.status = 404
        /\ AttemptsOf(r) = {}

\* C10: for POST /send-group and POST /send-media, while the send attempt of
\* a request is unsettled the request is unanswered, and afterwards the
\* answer is 200 exactly when the attempt succeeded and 500 exactly when it
\* failed.
C10_SyncResponseIsOutcome ==
    \A r \in 1..Len(requests) : requests[r].ep \in {"send-group", "send-media"} =>
        \A s \in AttemptsOf(r) :
            /\ s.st = "pending" => requests[r].resp = Pending
            /\ requests[r].resp.status = 200 <=> s.st = "sent"
            /\ requests[r].resp.status = 500 <=> s.st = "failed"

MediaPath(r) == UploadPath(requests[r].file.val)

\* The send attempt of request r succeeds in this step.
SendSucceeds(r) ==
    \E s \in sends :
        /\ s.req = r
        /\ s.st = "pending"
        /\ [s EXCEPT !.st = "sent"] \in sends'

\* C17: in POST /send-media a file leaves uploads/ only in the step in which
\* the send attempt of a request that uploaded it succeeds and that request
\* is answered 200; the file of a request whose send succeeds is removed in
\* that step; and when a request is answered because its number resolved to
\* nothing, or getNumberId failed, or the send failed, its file is in
\* uploads/.
C17_FileDeletedOnlyOnSuccess ==
    [][/\ \A path \in files \ files' :
            \E r \in 1..Len(requests) :
                /\ requests[r].ep = "send-media"
                /\ MediaPath(r) = path
                /\ SendSucceeds(r)
                /\ requests[r].resp = Pending
                /\ requests'[r].resp.status = 200
       /\ \A r \in 1..Len(requests) :
            requests[r].ep = "send-media" /\ requests[r].resp = Pending =>
                /\ SendSucceeds(r) => MediaPath(r) \in files \ files'
                /\ requests'[r].resp.body \in
                        {"Invalid WhatsApp number", "getNumberId failed", "sendMessage failed"}
                    => MediaPath(r) \in files']_vars

----------------------------------------------------------------------------
(* Properties of the contacts page. *)

RECURSIVE UsersOf(_)
\* The user-type contacts of a list, in order.
UsersOf(l) ==
    IF l = <<>> THEN <<>>
    ELSE (IF Head(l).isUser THEN <<Head(l)>> ELSE <<>>) \o UsersOf(Tail(l))

\* The 0-indexed positions [(page-1)*pageSize, page*pageSize) that exist in
\* a list of n elements.
PagePositions(n, page, pageSize) ==
    {k \in 0..(n - 1) : (page - 1) * pageSize <= k /\ k < page * pageSize}

\* The reply to r is the page of the users of the fetched list, entry by
\* entry, with named(c) telling which contacts keep their name.
IsPageOf(r, named(_)) ==
    LET q     == requests[r]
        users == UsersOf(q.fetched)
        pos   == PagePositions(Len(users), q.page, q.pageSize)
    IN  /\ q.reply.event = "contactsList"
        /\ Len(q.reply.data) = Cardinality(pos)
        /\ \A j \in 1..Len(q.reply.data) :
                LET c == users[(q.page - 1) * q.pageSize + j]
                IN  /\ q.reply.data[j].number = c.number
                    /\ q.reply.data[j].name = IF named(c) THEN c.name.val ELSE "Unknown"

Fetched(r) ==
    /\ requests[r].ep = "getContacts"
    /\ requests[r].phase = "done"
    /\ requests[r].reply.event # "error"

HasName(c) == c.name.def

HasNonEmptyName(c) == c.name.def /\ c.name.val # ""

\* C13, as stated: a getContacts event with page >= 1 and pageSize >= 1
\* whose fetch succeeds is answered with the entries at positions
\* [(page-1)*pageSize, page*pageSize) of the user-type contacts, in order,
\* each with its number and its name, "Unknown" when the contact has no
\* name; a page beyond the end is answered with the empty list.
C13_ContactsPageAsStated ==
    \A r \in 1..Len(requests) : Fetched(r) => IsPageOf(r, HasName)

\* C13, amended: the same, with "Unknown" also for a contact whose name is
\* the empty string.
C13_ContactsPage ==
    \A r \in 1..Len(requests) : Fetched(r) => IsPageOf(r, HasNonEmptyName)

C13_Witness ==
    \E r \in 1..Len(requests) :
        /\ Fetched(r)
        /\ requests[r].page = 2
        /\ requests[r].pageSize = 1
        /\ Len(requests[r].fetched) = 3
        /\ ~requests[r].fetched[1].isUser
        /\ requests[r].reply.data = <<[name |-> "Unknown", number |-> "2"]>>

----------------------------------------------------------------------------
(* Properties of the recipient formatting. *)

RECURSIVE DigitsOf(_)
\* The digits of a string, in order.
DigitsOf(str) ==
    IF str = <<>> THEN <<>>
    ELSE (IF Head(str) \in {"0", "1", "2", "3", "4", "5", "6", "7", "8", "9"}
          THEN <<Head(str)>> ELSE <<>>) \o DigitsOf(Tail(str))

\* C14: the formatted form of a string is its digits, in order, followed by
\* "@c.us", and formatting the formatted form gives it back unchanged.
C14_NormalizeIdempotent ==
    \A r \in 1..Len(requests) : requests[r].ep = "format" =>
        LET q == requests[r]
        IN  /\ q.phase \in {"once", "twice"} =>
                q.once = DigitsOf(q.raw) \o <<"@", "c", ".", "u", "s">>
            /\ q.phase = "twice" => q.twice = q.once

C14_Witness ==
    \E r \in 1..Len(requests) :
        /\ requests[r].ep = "format"
        /\ requests[r].raw = <<"+", "7", "-", "@", "c", ".", "u", "s">>
        /\ requests[r].phase = "twice"
        /\ requests[r].twice = <<"7", "@", "c", ".", "u", "s">>

====
